---- MODULE Spec2Model ----
(***************************************************************************)
(* Model of the BVH broad phase of the BroadPhase demo                     *)
(* (src/BroadPhase/src/bvh.h, bvh.cpp, aabb.h, vec2.h).                    *)
(*                                                                         *)
(* Coordinates are floats in the source.  The model draws them from a      *)
(* set of even integers: on these values every float operation the   *)
(* BVH performs (+, -, * 0.5f, <, <=, >=) is exact, so the integer         *)
(* arithmetic below computes what the float code computes.                 *)
(*                                                                         *)
(* The arena nodes_ is a sequence; arena index i (0-based, as in the       *)
(* source) is stored at position i + 1.  Child links, shape indices and    *)
(* the values returned by the operations keep the source's 0-based         *)
(* numbering, with -1 for "none".                                          *)
(***************************************************************************)
EXTENDS Integers, Sequences, FiniteSets, TLC

VARIABLES
    aabbs,       \* AppState::aabbs, the caller's list of boxes
    nodes_,      \* BVH::nodes_
    max_depth_,  \* BVH::max_depth_
    ret,         \* the last call: operation, arguments, returned value
    built,       \* history: nodes_ is the outcome of build(aabbs)
    discarded,   \* history: the arena size the last build or clear started from
    ui,          \* AppState::ui, the fields the key and mouse callbacks step through
    query_steps  \* AppState::query_steps

vars == <<aabbs, nodes_, max_depth_, ret, built, discarded, ui, query_steps>>

\* ------------------------------------------------------------------ bounds

\* the caller's list holds at most MaxShapes boxes
MaxShapes == 3

\* ... and at most MaxPairShapes boxes where only the pair searches are called
MaxPairShapes == 5

\* ... and at most MaxOverlapShapes boxes where only the overlap test is called
MaxOverlapShapes == 2

\* ------------------------------------------------------------------ vec2.h

Vec2(x, y) == [x |-> x, y |-> y]

Vec2Min(a, b) == Vec2(IF a.x < b.x THEN a.x ELSE b.x, IF a.y < b.y THEN a.y ELSE b.y)

Vec2Max(a, b) == Vec2(IF a.x > b.x THEN a.x ELSE b.x, IF a.y > b.y THEN a.y ELSE b.y)

\* ------------------------------------------------------------------ aabb.h

AABB(mn, mx) == [min |-> mn, max |-> mx]

width(b) == b.max.x - b.min.x

height(b) == b.max.y - b.min.y

\* (min + max) * 0.5f; the sums are even
center(b) == Vec2((b.min.x + b.max.x) \div 2, (b.min.y + b.max.y) \div 2)

\* overlaps with the second comparison of each axis strict
overlaps_half_open(a, o) ==
    /\ a.min.x <= o.max.x
    /\ a.max.x > o.min.x
    /\ a.min.y <= o.max.y
    /\ a.max.y > o.min.y

overlaps(a, o) ==
    /\ a.min.x <= o.max.x
    /\ a.max.x >= o.min.x
    /\ a.min.y <= o.max.y
    /\ a.max.y >= o.min.y

\* merged with Vec2::min used for both corners
merged_min_only(a, o) == AABB(Vec2Min(a.min, o.min), Vec2Min(a.max, o.max))

merged(a, o) == AABB(Vec2Min(a.min, o.min), Vec2Max(a.max, o.max))

\* ------------------------------------------------------------------ inputs

\* the coordinate values of the boxes
Coords == {0, 2}

Points == {Vec2(x, y) : x \in Coords, y \in Coords}

\* the boxes a caller may pass: min <= max on both axes
Boxes == {b \in {AABB(p, q) : p \in Points, q \in Points} :
             b.min.x <= b.max.x /\ b.min.y <= b.max.y}

\* the boxes as wide as they are high: the four points and the whole square
SquareBoxes == {b \in Boxes : b.max.x - b.min.x = b.max.y - b.min.y}

\* a wider grid, on which two boxes of positive area can touch
WideCoords == {0, 2, 4}

WideBoxes == {b \in {AABB(Vec2(x1, y1), Vec2(x2, y2)) :
                          x1 \in WideCoords, y1 \in WideCoords,
                          x2 \in WideCoords, y2 \in WideCoords} :
                 b.min.x <= b.max.x /\ b.min.y <= b.max.y}

\* the three boxes of the specification's concrete scenario
BoxA == AABB(Vec2(0, 0), Vec2(10, 10))

BoxB == AABB(Vec2(5, 5), Vec2(15, 15))

BoxC == AABB(Vec2(100, 100), Vec2(110, 110))

ScenarioBoxes == {BoxA, BoxB, BoxC}

BoxLists(boxes, max) == UNION {[1..n -> boxes] : n \in 0..max}

\* ------------------------------------------------------------------ bvh.h

\* BVHNode's default member initialisers
DefaultNode ==
    [bounds |-> AABB(Vec2(0, 0), Vec2(0, 0)), left |-> -1, right |-> -1,
     shape_index |-> -1, depth |-> 0, subtree_size |-> 1]

\* the private state of a BVH object
State(nodes, max_depth) == [nodes |-> nodes, max_depth |-> max_depth]

\* nodes_[i]
At(nodes, i) == nodes[i + 1]

root(nodes) == IF nodes = <<>> THEN -1 ELSE 0

\* ------------------------------------------------------------------ bvh.cpp: build

\* clear that forgets to reset max_depth_
clear_keep_depth(st) == State(<<>>, st.max_depth)

clear(st) == State(<<>>, 0)

\* aabbs[i]
Shape(list, i) == list[i + 1]

\* The subset build_recursive works on is a std::vector<int>, modelled as the
\* set of its members: the order it arrives in is never observed.  The bounds
\* are a min/max over all members, std::sort may leave equal centroids in any
\* order whatever order it was given, and a subset of one has one order.

\* the loop of build_recursive that merges the boxes of the subset
RECURSIVE SubsetBounds(_, _)
SubsetBounds(indices, list) ==
    LET i == CHOOSE m \in indices : TRUE
    IN  IF indices = {i} THEN Shape(list, i)
        ELSE merged(SubsetBounds(indices \ {i}, list), Shape(list, i))

\* the comparator with the comparison turned around
CentroidLess_descending(list, split_x, a, b) ==
    IF split_x THEN center(Shape(list, a)).x > center(Shape(list, b)).x
    ELSE center(Shape(list, a)).y > center(Shape(list, b)).y

\* the comparator handed to std::sort
CentroidLess(list, split_x, a, b) ==
    IF split_x THEN center(Shape(list, a)).x < center(Shape(list, b)).x
    ELSE center(Shape(list, a)).y < center(Shape(list, b)).y

\* every order std::sort may leave the subset in: the permutations in which
\* no element is less than an earlier one
RECURSIVE StdSort(_, _, _)
StdSort(indices, list, split_x) ==
    IF indices = {} THEN {<<>>}
    ELSE UNION {
        {<<i>> \o rest : rest \in StdSort(indices \ {i}, list, split_x)} :
        i \in {m \in indices : \A o \in indices : ~CentroidLess(list, split_x, o, m)}}

\* the split index rounded up
Median_ceil(size) == (size + 1) \div 2

\* the split before the last element
Median_last(size) == size - 1

\* size / 2
Median(size) == size \div 2

Range(s) == {s[i] : i \in 1..Len(s)}

\* left_indices and right_indices, for every order std::sort may produce
Halves(indices, list, split_x) ==
    LET mid == Median(Cardinality(indices))
    IN  {[left  |-> Range(SubSeq(sorted, 1, mid)),
          right |-> Range(SubSeq(sorted, mid + 1, Len(sorted)))] :
         sorted \in StdSort(indices, list, split_x)}

\* the leaf branch storing the arena index in place of indices[0]
WriteLeaf_node_idx(nodes, node_idx, bounds, depth, shape) ==
    [nodes EXCEPT ![node_idx + 1] =
        [@ EXCEPT !.bounds = bounds, !.depth = depth,
                  !.shape_index = node_idx, !.subtree_size = 1]]

\* the leaf branch without the write to depth
WriteLeaf_no_depth(nodes, node_idx, bounds, depth, shape) ==
    [nodes EXCEPT ![node_idx + 1] =
        [@ EXCEPT !.bounds = bounds, !.shape_index = shape, !.subtree_size = 1]]

\* the leaf branch of build_recursive
WriteLeaf(nodes, node_idx, bounds, depth, shape) ==
    [nodes EXCEPT ![node_idx + 1] =
        [@ EXCEPT !.bounds = bounds, !.depth = depth,
                  !.shape_index = shape, !.subtree_size = 1]]

\* the parent writes without the one to subtree_size
WriteInternal_no_size(nodes, node_idx, bounds, depth, left_idx, right_idx) ==
    [nodes EXCEPT ![node_idx + 1] =
        [@ EXCEPT !.bounds = bounds, !.depth = depth,
                  !.left = left_idx, !.right = right_idx]]

\* the writes to the parent slot after both recursive calls
\* the parent writes with left_idx stored in both links
WriteInternal_same_child(nodes, node_idx, bounds, depth, left_idx, right_idx) ==
    [nodes EXCEPT ![node_idx + 1] =
        [@ EXCEPT !.bounds = bounds, !.depth = depth,
                  !.left = left_idx, !.right = left_idx,
                  !.subtree_size = At(nodes, left_idx).subtree_size +
                                   At(nodes, right_idx).subtree_size]]

\* the parent writes with the two links exchanged
WriteInternal_swapped(nodes, node_idx, bounds, depth, left_idx, right_idx) ==
    [nodes EXCEPT ![node_idx + 1] =
        [@ EXCEPT !.bounds = bounds, !.depth = depth,
                  !.left = right_idx, !.right = left_idx,
                  !.subtree_size = At(nodes, left_idx).subtree_size +
                                   At(nodes, right_idx).subtree_size]]

\* the parent writes without the one to right
WriteInternal_no_right(nodes, node_idx, bounds, depth, left_idx, right_idx) ==
    [nodes EXCEPT ![node_idx + 1] =
        [@ EXCEPT !.bounds = bounds, !.depth = depth,
                  !.left = left_idx,
                  !.subtree_size = At(nodes, left_idx).subtree_size +
                                   At(nodes, right_idx).subtree_size]]

WriteInternal(nodes, node_idx, bounds, depth, left_idx, right_idx) ==
    [nodes EXCEPT ![node_idx + 1] =
        [@ EXCEPT !.bounds = bounds, !.depth = depth,
                  !.left = left_idx, !.right = right_idx,
                  !.subtree_size = At(nodes, left_idx).subtree_size +
                                   At(nodes, right_idx).subtree_size]]

\* max_depth_ counting levels in place of edges
DeepenTo_levels(max_depth, depth) == IF depth + 1 > max_depth THEN depth + 1 ELSE max_depth

\* max_depth_ after "if (depth > max_depth_) max_depth_ = depth"
DeepenTo(max_depth, depth) == IF depth > max_depth THEN depth ELSE max_depth

\* the split axis with the tie given to y
SplitX_strict(bounds) == width(bounds) > height(bounds)

\* the split axis: longest extent, x on a tie
SplitX(bounds) == width(bounds) >= height(bounds)

\* the set of outcomes [st, idx] of build_recursive(indices, aabbs, depth)
\* run on BVH state st, one for every order std::sort may produce
RECURSIVE build_recursive(_, _, _, _)
build_recursive(st, indices, list, depth) ==
    LET md       == DeepenTo(st.max_depth, depth)
        node_idx == Len(st.nodes)
        pushed   == Append(st.nodes, DefaultNode)
        bounds   == SubsetBounds(indices, list)
    IN  IF Cardinality(indices) = 1
        THEN {[st  |-> State(WriteLeaf(pushed, node_idx, bounds, depth,
                                       CHOOSE i \in indices : TRUE), md),
               idx |-> node_idx]}
        ELSE
          UNION {
            UNION {
              {[st  |-> State(WriteInternal(r.st.nodes, node_idx, bounds, depth,
                                            l.idx, r.idx), r.st.max_depth),
                idx |-> node_idx] :
               r \in build_recursive(l.st, h.right, list, depth + 1)} :
              l \in build_recursive(State(pushed, md), h.left, list, depth + 1)} :
            h \in Halves(indices, list, SplitX(bounds))}

\* std::iota(indices.begin(), indices.end(), 0)
Iota(n) == 0..(n - 1)

\* build that returns on an empty list before it clears
build_keep_on_empty(st, list) ==
    IF list = <<>> THEN {st}
    ELSE {o.st : o \in build_recursive(clear(st), Iota(Len(list)), list, 0)}

\* the set of BVH states build(aabbs) may leave behind when run on st
build(st, list) ==
    LET c == clear(st)
    IN  IF list = <<>> THEN {c}
        ELSE {o.st : o \in build_recursive(c, Iota(Len(list)), list, 0)}

\* ------------------------------------------------------------------ bvh.cpp: queries

\* the leaf-leaf branch without the swap
EmitPair_unordered(pairs, si, sj) ==
    IF si # sj THEN Append(pairs, <<si, sj>>) ELSE pairs

\* the leaf-leaf branch without the test for equal shapes
EmitPair_no_self_check(pairs, si, sj) ==
    Append(pairs, IF si > sj THEN <<sj, si>> ELSE <<si, sj>>)

\* the leaf-leaf branch of self_query
EmitPair(pairs, si, sj) ==
    IF si # sj
    THEN Append(pairs, IF si > sj THEN <<sj, si>> ELSE <<si, sj>>)
    ELSE pairs

\* which side the both-internal branch descends
DescendA(na, nb) == na.subtree_size >= nb.subtree_size

RECURSIVE self_query(_, _, _, _)

\* self_query with the left-against-right call of the same-node branch left out
self_query_no_cross(nodes, a, b, pairs) ==
    IF a < 0 \/ b < 0 THEN pairs
    ELSE
      LET na == At(nodes, a)
          nb == At(nodes, b)
          a_leaf == na.shape_index >= 0
          b_leaf == nb.shape_index >= 0
      IN  IF ~overlaps(na.bounds, nb.bounds) THEN pairs
          ELSE IF a_leaf /\ b_leaf THEN EmitPair(pairs, na.shape_index, nb.shape_index)
          ELSE IF a = b THEN
              self_query(nodes, na.right, na.right,
                  self_query(nodes, na.left, na.left, pairs))
          ELSE IF a_leaf THEN
              self_query(nodes, a, nb.right, self_query(nodes, a, nb.left, pairs))
          ELSE IF b_leaf THEN
              self_query(nodes, na.right, b, self_query(nodes, na.left, b, pairs))
          ELSE IF DescendA(na, nb) THEN
              self_query(nodes, na.right, b, self_query(nodes, na.left, b, pairs))
          ELSE
              self_query(nodes, a, nb.right, self_query(nodes, a, nb.left, pairs))

self_query(nodes, a, b, pairs) ==
    IF a < 0 \/ b < 0 THEN pairs
    ELSE
      LET na == At(nodes, a)
          nb == At(nodes, b)
          a_leaf == na.shape_index >= 0
          b_leaf == nb.shape_index >= 0
      IN  IF ~overlaps(na.bounds, nb.bounds) THEN pairs
          ELSE IF a_leaf /\ b_leaf THEN EmitPair(pairs, na.shape_index, nb.shape_index)
          ELSE IF a = b THEN
              self_query(nodes, na.left, na.right,
                  self_query(nodes, na.right, na.right,
                      self_query(nodes, na.left, na.left, pairs)))
          ELSE IF a_leaf THEN
              self_query(nodes, a, nb.right, self_query(nodes, a, nb.left, pairs))
          ELSE IF b_leaf THEN
              self_query(nodes, na.right, b, self_query(nodes, na.left, b, pairs))
          ELSE IF DescendA(na, nb) THEN
              self_query(nodes, na.right, b, self_query(nodes, na.left, b, pairs))
          ELSE
              self_query(nodes, a, nb.right, self_query(nodes, a, nb.left, pairs))

find_all_pairs(nodes) == IF nodes = <<>> THEN <<>> ELSE self_query(nodes, 0, 0, <<>>)

\* the calls of self_query that self_query(a, b) makes, itself included, in
\* the order they are entered
RECURSIVE self_query_calls(_, _, _, _)

\* the calls with the same-node branch entered for internal children only
self_query_calls_internal_only(nodes, a, b, calls) ==
    LET entered == Append(calls, <<a, b>>)
    IN  IF a < 0 \/ b < 0 THEN entered
        ELSE
          LET na == At(nodes, a)
              nb == At(nodes, b)
              a_leaf == na.shape_index >= 0
              b_leaf == nb.shape_index >= 0
              lft == IF At(nodes, na.left).shape_index >= 0 THEN entered
                     ELSE self_query_calls(nodes, na.left, na.left, entered)
              rgt == IF At(nodes, na.right).shape_index >= 0 THEN lft
                     ELSE self_query_calls(nodes, na.right, na.right, lft)
          IN  IF ~overlaps(na.bounds, nb.bounds) THEN entered
              ELSE IF a_leaf /\ b_leaf THEN entered
              ELSE IF a = b THEN self_query_calls(nodes, na.left, na.right, rgt)
              ELSE IF a_leaf THEN
                  self_query_calls(nodes, a, nb.right,
                      self_query_calls(nodes, a, nb.left, entered))
              ELSE IF b_leaf THEN
                  self_query_calls(nodes, na.right, b,
                      self_query_calls(nodes, na.left, b, entered))
              ELSE IF DescendA(na, nb) THEN
                  self_query_calls(nodes, na.right, b,
                      self_query_calls(nodes, na.left, b, entered))
              ELSE
                  self_query_calls(nodes, a, nb.right,
                      self_query_calls(nodes, a, nb.left, entered))

self_query_calls(nodes, a, b, calls) ==
    LET entered == Append(calls, <<a, b>>)
    IN  IF a < 0 \/ b < 0 THEN entered
        ELSE
          LET na == At(nodes, a)
              nb == At(nodes, b)
              a_leaf == na.shape_index >= 0
              b_leaf == nb.shape_index >= 0
          IN  IF ~overlaps(na.bounds, nb.bounds) THEN entered
              ELSE IF a_leaf /\ b_leaf THEN entered
              ELSE IF a = b THEN
                  self_query_calls(nodes, na.left, na.right,
                      self_query_calls(nodes, na.right, na.right,
                          self_query_calls(nodes, na.left, na.left, entered)))
              ELSE IF a_leaf THEN
                  self_query_calls(nodes, a, nb.right,
                      self_query_calls(nodes, a, nb.left, entered))
              ELSE IF b_leaf THEN
                  self_query_calls(nodes, na.right, b,
                      self_query_calls(nodes, na.left, b, entered))
              ELSE IF DescendA(na, nb) THEN
                  self_query_calls(nodes, na.right, b,
                      self_query_calls(nodes, na.left, b, entered))
              ELSE
                  self_query_calls(nodes, a, nb.right,
                      self_query_calls(nodes, a, nb.left, entered))

\* the calls of self_query made by find_all_pairs()
find_all_pairs_calls(nodes) ==
    IF nodes = <<>> THEN <<>> ELSE self_query_calls(nodes, 0, 0, <<>>)

\* self_query with the both-internal test replaced by a free choice of the
\* node to descend: the set of pair lists it may produce
RECURSIVE self_query_any(_, _, _, _)

\* the free-choice self_query whose descent of b leaves out the right child
self_query_any_left_only(nodes, a, b, pairs) ==
    IF a < 0 \/ b < 0 THEN {pairs}
    ELSE
      LET na == At(nodes, a)
          nb == At(nodes, b)
          a_leaf == na.shape_index >= 0
          b_leaf == nb.shape_index >= 0
          descend_a == UNION {self_query_any(nodes, na.right, b, p) :
                                 p \in self_query_any(nodes, na.left, b, pairs)}
          descend_b == self_query_any(nodes, a, nb.left, pairs)
      IN  IF ~overlaps(na.bounds, nb.bounds) THEN {pairs}
          ELSE IF a_leaf /\ b_leaf THEN {EmitPair(pairs, na.shape_index, nb.shape_index)}
          ELSE IF a = b THEN
              UNION {UNION {self_query_any(nodes, na.left, na.right, q) :
                               q \in self_query_any(nodes, na.right, na.right, p)} :
                        p \in self_query_any(nodes, na.left, na.left, pairs)}
          ELSE IF a_leaf THEN descend_b
          ELSE IF b_leaf THEN descend_a
          ELSE descend_a \cup descend_b

self_query_any(nodes, a, b, pairs) ==
    IF a < 0 \/ b < 0 THEN {pairs}
    ELSE
      LET na == At(nodes, a)
          nb == At(nodes, b)
          a_leaf == na.shape_index >= 0
          b_leaf == nb.shape_index >= 0
          descend_a == UNION {self_query_any(nodes, na.right, b, p) :
                                 p \in self_query_any(nodes, na.left, b, pairs)}
          descend_b == UNION {self_query_any(nodes, a, nb.right, p) :
                                 p \in self_query_any(nodes, a, nb.left, pairs)}
      IN  IF ~overlaps(na.bounds, nb.bounds) THEN {pairs}
          ELSE IF a_leaf /\ b_leaf THEN {EmitPair(pairs, na.shape_index, nb.shape_index)}
          ELSE IF a = b THEN
              UNION {UNION {self_query_any(nodes, na.left, na.right, q) :
                               q \in self_query_any(nodes, na.right, na.right, p)} :
                        p \in self_query_any(nodes, na.left, na.left, pairs)}
          ELSE IF a_leaf THEN descend_b
          ELSE IF b_leaf THEN descend_a
          ELSE descend_a \cup descend_b

find_all_pairs_any(nodes) ==
    IF nodes = <<>> THEN {<<>>} ELSE self_query_any(nodes, 0, 0, <<>>)

\* stack.back() / stack.pop_back()
Back(stack) == stack[Len(stack)]

PopBack(stack) == SubSeq(stack, 1, Len(stack) - 1)

\* the while loop of query
RECURSIVE QueryLoop(_, _, _, _, _)
QueryLoop(nodes, query_box, exclude_index, stack, results) ==
    IF stack = <<>> THEN results
    ELSE
      LET idx  == Back(stack)
          rest == PopBack(stack)
      IN  IF idx < 0 THEN QueryLoop(nodes, query_box, exclude_index, rest, results)
          ELSE
            LET n == At(nodes, idx)
            IN  IF ~overlaps(n.bounds, query_box)
                THEN QueryLoop(nodes, query_box, exclude_index, rest, results)
                ELSE IF n.shape_index >= 0
                THEN QueryLoop(nodes, query_box, exclude_index, rest,
                               IF n.shape_index # exclude_index
                               THEN Append(results, n.shape_index) ELSE results)
                ELSE QueryLoop(nodes, query_box, exclude_index,
                               rest \o <<n.left, n.right>>, results)

\* query that ignores exclude_index
query_no_exclude(nodes, query_box, exclude_index) ==
    IF nodes = <<>> THEN <<>> ELSE QueryLoop(nodes, query_box, -1, <<0>>, <<>>)

query(nodes, query_box, exclude_index) ==
    IF nodes = <<>> THEN <<>> ELSE QueryLoop(nodes, query_box, exclude_index, <<0>>, <<>>)

TraversalStep(node_index, action, query_shape, partner_shape) ==
    [node_index |-> node_index, action |-> action,
     query_shape |-> query_shape, partner_shape |-> partner_shape]

\* the while loop of query_with_steps
RECURSIVE StepsLoop(_, _, _, _, _)

\* the loop with the leaf test made before the overlap test
StepsLoop_leaf_first(nodes, query_box, query_index, stack, steps) ==
    IF stack = <<>> THEN steps
    ELSE
      LET idx  == Back(stack)
          rest == PopBack(stack)
      IN  IF idx < 0 THEN StepsLoop(nodes, query_box, query_index, rest, steps)
          ELSE
            LET n == At(nodes, idx)
            IN  IF n.shape_index >= 0
                THEN StepsLoop(nodes, query_box, query_index, rest,
                               IF n.shape_index # query_index
                               THEN Append(steps, TraversalStep(idx, "LeafTest", query_index,
                                                                n.shape_index))
                               ELSE steps)
                ELSE IF ~overlaps(n.bounds, query_box)
                THEN StepsLoop(nodes, query_box, query_index, rest,
                               Append(steps, TraversalStep(idx, "Prune", query_index, -1)))
                ELSE StepsLoop(nodes, query_box, query_index,
                               rest \o <<n.right, n.left>>,
                               Append(steps, TraversalStep(idx, "Visit", query_index, -1)))

\* the loop without the continue that follows the Prune step
StepsLoop_no_continue(nodes, query_box, query_index, stack, steps) ==
    IF stack = <<>> THEN steps
    ELSE
      LET idx  == Back(stack)
          rest == PopBack(stack)
      IN  IF idx < 0 THEN StepsLoop(nodes, query_box, query_index, rest, steps)
          ELSE
            LET n      == At(nodes, idx)
                pruned == IF ~overlaps(n.bounds, query_box)
                          THEN Append(steps, TraversalStep(idx, "Prune", query_index, -1))
                          ELSE steps
            IN  IF n.shape_index >= 0
                THEN StepsLoop(nodes, query_box, query_index, rest,
                               IF n.shape_index # query_index
                               THEN Append(pruned, TraversalStep(idx, "LeafTest", query_index,
                                                                 n.shape_index))
                               ELSE pruned)
                ELSE StepsLoop(nodes, query_box, query_index,
                               rest \o <<n.right, n.left>>,
                               Append(pruned, TraversalStep(idx, "Visit", query_index, -1)))

\* the loop pushing the children in the order query pushes them
StepsLoop_right_first(nodes, query_box, query_index, stack, steps) ==
    IF stack = <<>> THEN steps
    ELSE
      LET idx  == Back(stack)
          rest == PopBack(stack)
      IN  IF idx < 0 THEN StepsLoop(nodes, query_box, query_index, rest, steps)
          ELSE
            LET n == At(nodes, idx)
            IN  IF ~overlaps(n.bounds, query_box)
                THEN StepsLoop(nodes, query_box, query_index, rest,
                               Append(steps, TraversalStep(idx, "Prune", query_index, -1)))
                ELSE IF n.shape_index >= 0
                THEN StepsLoop(nodes, query_box, query_index, rest,
                               IF n.shape_index # query_index
                               THEN Append(steps, TraversalStep(idx, "LeafTest", query_index,
                                                                n.shape_index))
                               ELSE steps)
                ELSE StepsLoop(nodes, query_box, query_index,
                               rest \o <<n.left, n.right>>,
                               Append(steps, TraversalStep(idx, "Visit", query_index, -1)))

StepsLoop(nodes, query_box, query_index, stack, steps) ==
    IF stack = <<>> THEN steps
    ELSE
      LET idx  == Back(stack)
          rest == PopBack(stack)
      IN  IF idx < 0 THEN StepsLoop(nodes, query_box, query_index, rest, steps)
          ELSE
            LET n == At(nodes, idx)
            IN  IF ~overlaps(n.bounds, query_box)
                THEN StepsLoop(nodes, query_box, query_index, rest,
                               Append(steps, TraversalStep(idx, "Prune", query_index, -1)))
                ELSE IF n.shape_index >= 0
                THEN StepsLoop(nodes, query_box, query_index, rest,
                               IF n.shape_index # query_index
                               THEN Append(steps, TraversalStep(idx, "LeafTest", query_index,
                                                                n.shape_index))
                               ELSE steps)
                ELSE StepsLoop(nodes, query_box, query_index,
                               rest \o <<n.right, n.left>>,
                               Append(steps, TraversalStep(idx, "Visit", query_index, -1)))

\* query_with_steps that records the test of a leaf against itself
query_with_steps_self_test(nodes, query_box, query_index) ==
    IF nodes = <<>> THEN <<>>
    ELSE [k \in 1..Len(StepsLoop(nodes, query_box, -1, <<0>>, <<>>)) |->
            [StepsLoop(nodes, query_box, -1, <<0>>, <<>>)[k] EXCEPT !.query_shape = query_index]]

query_with_steps(nodes, query_box, query_index) ==
    IF nodes = <<>> THEN <<>> ELSE StepsLoop(nodes, query_box, query_index, <<0>>, <<>>)

\* the two nested loops of brute_force_pairs
RECURSIVE BruteLoop(_, _, _, _)
BruteLoop(list, i, j, pairs) ==
    IF i >= Len(list) THEN pairs
    ELSE IF j >= Len(list) THEN BruteLoop(list, i + 1, i + 2, pairs)
    ELSE BruteLoop(list, i, j + 1,
                   IF overlaps(Shape(list, i), Shape(list, j))
                   THEN Append(pairs, <<i, j>>) ELSE pairs)

\* brute_force_pairs with the inner loop of the first row started at i
brute_force_pairs_from_self(list) == BruteLoop(list, 0, 0, <<>>)

brute_force_pairs(list) == BruteLoop(list, 0, 1, <<>>)

\* the indices the loop of query takes off its stack, in order
RECURSIVE QueryPopsLoop(_, _, _, _)
QueryPopsLoop(nodes, query_box, stack, pops) ==
    IF stack = <<>> THEN pops
    ELSE
      LET idx    == Back(stack)
          rest   == PopBack(stack)
          popped == Append(pops, idx)
      IN  IF idx < 0 THEN QueryPopsLoop(nodes, query_box, rest, popped)
          ELSE
            LET n == At(nodes, idx)
            IN  IF ~overlaps(n.bounds, query_box)
                THEN QueryPopsLoop(nodes, query_box, rest, popped)
                ELSE IF n.shape_index >= 0
                THEN QueryPopsLoop(nodes, query_box, rest, popped)
                ELSE QueryPopsLoop(nodes, query_box, rest \o <<n.left, n.right>>, popped)

query_pops(nodes, query_box) ==
    IF nodes = <<>> THEN <<>> ELSE QueryPopsLoop(nodes, query_box, <<0>>, <<>>)

\* the indices the loop of query_with_steps takes off its stack, in order
RECURSIVE StepsPopsLoop(_, _, _, _)
StepsPopsLoop(nodes, query_box, stack, pops) ==
    IF stack = <<>> THEN pops
    ELSE
      LET idx    == Back(stack)
          rest   == PopBack(stack)
          popped == Append(pops, idx)
      IN  IF idx < 0 THEN StepsPopsLoop(nodes, query_box, rest, popped)
          ELSE
            LET n == At(nodes, idx)
            IN  IF ~overlaps(n.bounds, query_box)
                THEN StepsPopsLoop(nodes, query_box, rest, popped)
                ELSE IF n.shape_index >= 0
                THEN StepsPopsLoop(nodes, query_box, rest, popped)
                ELSE StepsPopsLoop(nodes, query_box, rest \o <<n.right, n.left>>, popped)

query_with_steps_pops(nodes, query_box) ==
    IF nodes = <<>> THEN <<>> ELSE StepsPopsLoop(nodes, query_box, <<0>>, <<>>)

\* ------------------------------------------------------------------ the caller

\* what the last call returned: the operation, its arguments, its value
Ret(op, box, index, value) == [op |-> op, box |-> box, index |-> index, value |-> value]

NoBox == AABB(Vec2(0, 0), Vec2(0, 0))

\* no call is in progress and no returned value is held
Idle == Ret("idle", NoBox, -1, <<>>)

\* UIState's default member initialisers
DefaultUI ==
    [show_query_vis |-> FALSE, paused |-> FALSE, step_mode |-> FALSE,
     selected_shape |-> -1, step_index |-> -1,
     build_anim_active |-> FALSE, build_anim_step |-> 0]

\* AppState: a default-constructed BVH and the caller's list of boxes
InitWith(boxes, max) ==
    /\ aabbs \in BoxLists(boxes, max)
    /\ nodes_ = <<>>
    /\ max_depth_ = 0
    /\ ret = Idle
    /\ built = FALSE
    /\ discarded = 0
    /\ ui = DefaultUI
    /\ query_steps = <<>>

Init == InitWith(Boxes, MaxShapes)

\* bvh.build(aabbs)
Build ==
    /\ ret = Idle
    /\ \E st \in build(State(nodes_, max_depth_), aabbs) :
          /\ nodes_' = st.nodes
          /\ max_depth_' = st.max_depth
    /\ ret' = Ret("build", NoBox, -1, <<>>)
    /\ built' = TRUE
    /\ discarded' = Len(nodes_)
    /\ UNCHANGED <<aabbs, ui, query_steps>>

\* bvh.clear()
Clear ==
    /\ ret = Idle
    /\ LET st == clear(State(nodes_, max_depth_))
       IN  /\ nodes_' = st.nodes
           /\ max_depth_' = st.max_depth
    /\ ret' = Ret("clear", NoBox, -1, <<>>)
    /\ built' = FALSE
    /\ discarded' = Len(nodes_)
    /\ UNCHANGED <<aabbs, ui, query_steps>>

\* find_all_pairs that gives its arena away
FindAllPairs_consuming ==
    /\ ret = Idle
    /\ ret' = Ret("find_all_pairs", NoBox, -1, find_all_pairs(nodes_))
    /\ nodes_' = <<>>
    /\ UNCHANGED <<aabbs, max_depth_, built, discarded, ui, query_steps>>

\* bvh.find_all_pairs()
FindAllPairs ==
    /\ ret = Idle
    /\ ret' = Ret("find_all_pairs", NoBox, -1, find_all_pairs(nodes_))
    /\ UNCHANGED <<aabbs, nodes_, max_depth_, built, discarded, ui, query_steps>>

\* brute_force_pairs(aabbs)
BruteForcePairs ==
    /\ ret = Idle
    /\ ret' = Ret("brute_force_pairs", NoBox, -1, brute_force_pairs(aabbs))
    /\ UNCHANGED <<aabbs, nodes_, max_depth_, built, discarded, ui, query_steps>>

\* the indices a caller passes as exclude_index / query_index
QueryIndices == -1..(MaxShapes - 1)

\* bvh.query(box, exclude_index)
Query ==
    /\ ret = Idle
    /\ \E box \in Boxes, e \in QueryIndices :
          ret' = Ret("query", box, e, query(nodes_, box, e))
    /\ UNCHANGED <<aabbs, nodes_, max_depth_, built, discarded, ui, query_steps>>

\* bvh.query_with_steps(box, query_index)
QueryWithSteps ==
    /\ ret = Idle
    /\ \E box \in Boxes, q \in QueryIndices :
          ret' = Ret("query_with_steps", box, q, query_with_steps(nodes_, box, q))
    /\ UNCHANGED <<aabbs, nodes_, max_depth_, built, discarded, ui, query_steps>>

\* bvh.nodes()
Nodes ==
    /\ ret = Idle
    /\ ret' = Ret("nodes", NoBox, -1, nodes_)
    /\ UNCHANGED <<aabbs, nodes_, max_depth_, built, discarded, ui, query_steps>>

\* bvh.root()
Root ==
    /\ ret = Idle
    /\ ret' = Ret("root", NoBox, -1, root(nodes_))
    /\ UNCHANGED <<aabbs, nodes_, max_depth_, built, discarded, ui, query_steps>>

\* bvh.max_depth()
MaxDepth ==
    /\ ret = Idle
    /\ ret' = Ret("max_depth", NoBox, -1, max_depth_)
    /\ UNCHANGED <<aabbs, nodes_, max_depth_, built, discarded, ui, query_steps>>

\* the caller is done with the value the last call returned
Return ==
    /\ ret # Idle
    /\ ret' = Idle
    /\ discarded' = 0
    /\ UNCHANGED <<aabbs, nodes_, max_depth_, built, ui, query_steps>>

\* PhysicsWorld::ensure_count drops the last shape and the frame loop
\* resizes aabbs to the new count
PopShape ==
    /\ ret = Idle
    /\ aabbs # <<>>
    /\ aabbs' = SubSeq(aabbs, 1, Len(aabbs) - 1)
    /\ built' = FALSE
    /\ UNCHANGED <<nodes_, max_depth_, ret, discarded, ui, query_steps>>

\* every operation of the BVH, on a list that stays as it is
Next ==
    \/ Build
    \/ Clear
    \/ FindAllPairs
    \/ BruteForcePairs
    \/ Query
    \/ QueryWithSteps
    \/ Nodes
    \/ Root
    \/ MaxDepth
    \/ Return

Spec == Init /\ [][Next]_vars

\* the pair searches: the lists of Init, and longer lists of square boxes
InitPairs == Init \/ InitWith(SquareBoxes, MaxPairShapes)

NextPairs ==
    \/ Build
    \/ FindAllPairs
    \/ BruteForcePairs
    \/ Return

SpecPairs == InitPairs /\ [][NextPairs]_vars

\* rebuilding: the list shrinks between builds
NextRebuild ==
    \/ Build
    \/ Clear
    \/ PopShape
    \/ FindAllPairs
    \/ Return

SpecRebuild == Init /\ [][NextRebuild]_vars

\* aabbs[i].overlaps(aabbs[j]) on two boxes of the caller's list
Overlaps ==
    /\ ret = Idle
    /\ \E i \in Iota(Len(aabbs)), j \in Iota(Len(aabbs)) :
          ret' = Ret("overlaps", Shape(aabbs, i), j,
                     <<overlaps(Shape(aabbs, i), Shape(aabbs, j))>>)
    /\ UNCHANGED <<aabbs, nodes_, max_depth_, built, discarded, ui, query_steps>>

\* the overlap test alone, on lists of boxes of the wider grid
InitOverlaps == InitWith(WideBoxes, MaxOverlapShapes)

NextOverlaps ==
    \/ Overlaps
    \/ Return

SpecOverlaps == InitOverlaps /\ [][NextOverlaps]_vars

\* bvh.query(aabbs[i], exclude_index) with a box of the caller's list,
\* excluding nothing or the box's own index
QueryShape ==
    /\ ret = Idle
    /\ \E i \in Iota(Len(aabbs)) :
          \E e \in {-1, i} :
             ret' = Ret("query", Shape(aabbs, i), e, query(nodes_, Shape(aabbs, i), e))
    /\ UNCHANGED <<aabbs, nodes_, max_depth_, built, discarded, ui, query_steps>>

\* bvh.query_with_steps(aabbs[selected], selected)
QueryShapeWithSteps ==
    /\ ret = Idle
    /\ \E selected \in Iota(Len(aabbs)) :
          ret' = Ret("query_with_steps", Shape(aabbs, selected), selected,
                     query_with_steps(nodes_, Shape(aabbs, selected), selected))
    /\ UNCHANGED <<aabbs, nodes_, max_depth_, built, discarded, ui, query_steps>>

\* the scenario: lists drawn from its three boxes, queried with their own boxes
InitScenario == InitWith(ScenarioBoxes, MaxShapes)

NextScenario ==
    \/ Build
    \/ FindAllPairs
    \/ BruteForcePairs
    \/ QueryShape
    \/ QueryShapeWithSteps
    \/ MaxDepth
    \/ Return

SpecScenario == InitScenario /\ [][NextScenario]_vars

\* bvh.find_all_pairs(), observed by the arguments of its self_query calls
FindAllPairsCalls ==
    /\ ret = Idle
    /\ ret' = Ret("find_all_pairs_calls", NoBox, -1, find_all_pairs_calls(nodes_))
    /\ UNCHANGED <<aabbs, nodes_, max_depth_, built, discarded, ui, query_steps>>

\* bvh.query(box, ...), observed by the indices it pops
QueryPops ==
    /\ ret = Idle
    /\ \E box \in Boxes : ret' = Ret("query_pops", box, -1, query_pops(nodes_, box))
    /\ UNCHANGED <<aabbs, nodes_, max_depth_, built, discarded, ui, query_steps>>

\* bvh.query_with_steps(box, ...), observed by the indices it pops
QueryWithStepsPops ==
    /\ ret = Idle
    /\ \E box \in Boxes :
          ret' = Ret("query_with_steps_pops", box, -1, query_with_steps_pops(nodes_, box))
    /\ UNCHANGED <<aabbs, nodes_, max_depth_, built, discarded, ui, query_steps>>

\* the traversals observed from inside: what they call and what they pop
NextTraced ==
    \/ Build
    \/ FindAllPairsCalls
    \/ QueryPops
    \/ QueryWithStepsPops
    \/ Return

SpecTraced == Init /\ [][NextTraced]_vars

\* find_all_pairs() run with some other choice of the node to descend
FindAllPairsAnyDescent ==
    /\ ret = Idle
    /\ \E pairs \in find_all_pairs_any(nodes_) :
          ret' = Ret("find_all_pairs_any", NoBox, -1, pairs)
    /\ UNCHANGED <<aabbs, nodes_, max_depth_, built, discarded, ui, query_steps>>

\* the pair search under every descent rule, on the lists of InitPairs
NextDescent ==
    \/ Build
    \/ FindAllPairs
    \/ FindAllPairsAnyDescent
    \/ Return

SpecDescent == InitPairs /\ [][NextDescent]_vars

\* ------------------------------------------------------------------ main.cpp: the callbacks

\* case GLFW_KEY_SPACE without the reset of the step-through state
key_space_no_reset(u) == [u EXCEPT !.paused = ~u.paused]

\* case GLFW_KEY_SPACE
key_space(u) ==
    IF u.paused
    THEN [u EXCEPT !.paused = FALSE, !.step_mode = FALSE, !.step_index = -1]
    ELSE [u EXCEPT !.paused = TRUE]

\* case GLFW_KEY_N, with the sizes of bvh.nodes() and of query_steps
key_n(u, nodes_size, steps_size) ==
    IF ~u.paused THEN u
    ELSE IF u.build_anim_active
    THEN [u EXCEPT !.build_anim_step = u.build_anim_step + 1,
                   !.build_anim_active = ~(u.build_anim_step + 1 >= nodes_size)]
    ELSE IF u.selected_shape >= 0 /\ steps_size # 0
    THEN [u EXCEPT !.step_mode = TRUE,
                   !.step_index = IF u.step_index + 1 >= steps_size
                                  THEN steps_size - 1 ELSE u.step_index + 1]
    ELSE u

\* case GLFW_KEY_R
key_r(u) ==
    [u EXCEPT !.build_anim_active = TRUE, !.build_anim_step = 0, !.paused = TRUE]

\* case GLFW_KEY_3
key_3(u) == [u EXCEPT !.show_query_vis = ~u.show_query_vis]

\* left button pressed on shape i
mouse_press_shape(u, i) ==
    [u EXCEPT !.selected_shape = i, !.step_mode = FALSE, !.step_index = -1]

\* left button pressed on empty space
mouse_press_empty(u) ==
    [u EXCEPT !.selected_shape = -1, !.step_mode = FALSE, !.step_index = -1]

KeySpace ==
    /\ ui' = key_space(ui)
    /\ UNCHANGED <<aabbs, nodes_, max_depth_, ret, built, discarded, query_steps>>

KeyN ==
    /\ ui' = key_n(ui, Len(nodes_), Len(query_steps))
    /\ UNCHANGED <<aabbs, nodes_, max_depth_, ret, built, discarded, query_steps>>

KeyR ==
    /\ ui' = key_r(ui)
    /\ UNCHANGED <<aabbs, nodes_, max_depth_, ret, built, discarded, query_steps>>

Key3 ==
    /\ ui' = key_3(ui)
    /\ UNCHANGED <<aabbs, nodes_, max_depth_, ret, built, discarded, query_steps>>

\* the press lands on one of the world's shapes
MousePressShape ==
    /\ \E i \in Iota(Len(aabbs)) : ui' = mouse_press_shape(ui, i)
    /\ UNCHANGED <<aabbs, nodes_, max_depth_, ret, built, discarded, query_steps>>

MousePressEmpty ==
    /\ ui' = mouse_press_empty(ui)
    /\ UNCHANGED <<aabbs, nodes_, max_depth_, ret, built, discarded, query_steps>>

\* one pass of the frame loop: the tree is rebuilt, the steps of the
\* selected shape are recomputed and the selection is clamped
Frame ==
    /\ \E st \in build(State(nodes_, max_depth_), aabbs) :
          /\ nodes_' = st.nodes
          /\ max_depth_' = st.max_depth
          /\ query_steps' =
                IF /\ ui.selected_shape >= 0
                   /\ ui.selected_shape < Len(aabbs)
                   /\ ui.show_query_vis
                THEN query_with_steps(st.nodes, Shape(aabbs, ui.selected_shape),
                                      ui.selected_shape)
                ELSE <<>>
    /\ ui' = IF ui.selected_shape >= Len(aabbs)
             THEN [ui EXCEPT !.selected_shape = -1] ELSE ui
    /\ built' = TRUE
    /\ discarded' = Len(nodes_)
    /\ UNCHANGED <<aabbs, ret>>

\* the demo: frames and input events in any order, on the scenario's lists
NextUI ==
    \/ Frame
    \/ KeySpace
    \/ KeyN
    \/ KeyR
    \/ Key3
    \/ MousePressShape
    \/ MousePressEmpty

SpecUI == InitScenario /\ [][NextUI]_vars

\* ------------------------------------------------------------------ properties

\* the elements of a sequence
Elements(s) == {s[k] : k \in 1..Len(s)}

\* no value occurs twice in the sequence
NoRepeats(s) == \A k, l \in 1..Len(s) : k # l => s[k] # s[l]

\* arena indices
NodeIds == 0..(Len(nodes_) - 1)

IsLeaf(k) == At(nodes_, k).shape_index >= 0

\* the shapes at the leaves below arena node k, read off the child links
RECURSIVE LeafShapes(_)
LeafShapes(k) ==
    IF At(nodes_, k).left < 0 /\ At(nodes_, k).right < 0
    THEN {At(nodes_, k).shape_index}
    ELSE LeafShapes(At(nodes_, k).left) \cup LeafShapes(At(nodes_, k).right)

\* the pairs i < j of the caller's boxes that overlap, by definition
OverlappingPairs ==
    {<<i, j>> \in (0..(Len(aabbs) - 1)) \X (0..(Len(aabbs) - 1)) :
        i < j /\ overlaps(Shape(aabbs, i), Shape(aabbs, j))}

\* C1: after build(aabbs), whichever way std::sort ordered equal centroids,
\* find_all_pairs() returns the same set of pairs as brute_force_pairs(aabbs).
C1_PairsEqualBruteForce ==
    (built /\ ret.op = "find_all_pairs") =>
        Elements(ret.value) = Elements(brute_force_pairs(aabbs))

\* a tree of five shapes whose root has two overlapping internal children,
\* some pairs found and some pair of shapes apart
C1_Witness ==
    /\ built /\ ret.op = "find_all_pairs"
    /\ Len(aabbs) = 5
    /\ Len(ret.value) >= 2
    /\ Cardinality(OverlappingPairs) < 10
    /\ ~IsLeaf(At(nodes_, 0).left) /\ ~IsLeaf(At(nodes_, 0).right)
    /\ overlaps(At(nodes_, At(nodes_, 0).left).bounds, At(nodes_, At(nodes_, 0).right).bounds)

\* the arena node that is the leaf of shape i
LeafOf(i) == CHOOSE k \in NodeIds : At(nodes_, k).shape_index = i

\* C2: every pair (i, j) find_all_pairs() returns has i < j, and no pair is
\* returned twice.
C2_PairsOrderedOnce ==
    ret.op = "find_all_pairs" =>
        /\ \A k \in 1..Len(ret.value) : ret.value[k][1] < ret.value[k][2]
        /\ NoRepeats(ret.value)

\* several pairs were found, one of them between a leaf and a leaf of a
\* smaller shape index that comes later in the arena
C2_Witness ==
    /\ built /\ ret.op = "find_all_pairs"
    /\ Len(ret.value) >= 3
    /\ \E k \in 1..Len(ret.value) : LeafOf(ret.value[k][1]) > LeafOf(ret.value[k][2])

\* the shapes query(box, exclude_index) has to return, by definition
Overlapping(box, exclude_index) ==
    {i \in 0..(Len(aabbs) - 1) : i # exclude_index /\ overlaps(Shape(aabbs, i), box)}

\* C3: after build(aabbs), query(box, exclude_index) returns exactly the
\* indices i # exclude_index whose box overlaps box, each once; so
\* query(aabbs[i], i) never holds i and exclude_index = -1 excludes nothing.
C3_QueryExact ==
    (built /\ ret.op = "query") =>
        /\ Elements(ret.value) = Overlapping(ret.box, ret.index)
        /\ NoRepeats(ret.value)
        /\ ret.index \notin Elements(ret.value)
        /\ ret.index = -1 =>
              \A i \in 0..(Len(aabbs) - 1) :
                  overlaps(Shape(aabbs, i), ret.box) => i \in Elements(ret.value)

\* a shape was queried with its own box and index, found a partner and
\* missed another shape
C3_Witness ==
    /\ built /\ ret.op = "query"
    /\ Len(aabbs) = 3
    /\ ret.index \in 0..2
    /\ ret.box = Shape(aabbs, ret.index)
    /\ Len(ret.value) = 1

\* C4: after build of an empty list or after clear(), whatever tree there
\* was, nodes() is empty, root() is -1, max_depth() is 0 and find_all_pairs(),
\* query() and query_with_steps() return nothing.
C4_EmptyTree ==
    (ret.op = "clear" \/ (ret.op = "build" /\ aabbs = <<>>)) =>
        /\ nodes_ = <<>>
        /\ root(nodes_) = -1
        /\ max_depth_ = 0
        /\ find_all_pairs(nodes_) = <<>>
        /\ \A box \in Boxes, q \in QueryIndices :
              /\ query(nodes_, box, q) = <<>>
              /\ query_with_steps(nodes_, box, q) = <<>>

\* an empty list was built over a tree that had nodes
C4_Witness ==
    /\ ret.op = "build"
    /\ aabbs = <<>>
    /\ discarded > 1

\* C5: build of a one-element list yields one node, the root, a leaf with
\* shape_index 0, subtree_size 1, depth 0 and no children, and
\* find_all_pairs() on it returns nothing.
C5_SingleShape ==
    (built /\ Len(aabbs) = 1) =>
        /\ Len(nodes_) = 1
        /\ root(nodes_) = 0
        /\ At(nodes_, 0).shape_index = 0
        /\ At(nodes_, 0).subtree_size = 1
        /\ At(nodes_, 0).depth = 0
        /\ At(nodes_, 0).left = -1
        /\ At(nodes_, 0).right = -1
        /\ ret.op = "find_all_pairs" => ret.value = <<>>

\* find_all_pairs() was called on the tree of one shape
C5_Witness ==
    /\ built /\ Len(aabbs) = 1
    /\ ret.op = "find_all_pairs"

\* the leaves below arena node k, read off the child links
RECURSIVE LeafNodes(_)
LeafNodes(k) ==
    IF At(nodes_, k).left < 0 /\ At(nodes_, k).right < 0
    THEN {k}
    ELSE LeafNodes(At(nodes_, k).left) \cup LeafNodes(At(nodes_, k).right)

\* C6: every internal node's subtree_size is the sum of its children's,
\* every leaf's is 1, and each node's is the number of leaves below it.
C6_SubtreeSize ==
    \A k \in NodeIds :
        /\ IsLeaf(k) => At(nodes_, k).subtree_size = 1
        /\ ~IsLeaf(k) =>
              At(nodes_, k).subtree_size =
                  At(nodes_, At(nodes_, k).left).subtree_size +
                  At(nodes_, At(nodes_, k).right).subtree_size
        /\ At(nodes_, k).subtree_size = Cardinality(LeafNodes(k))

\* a tree of five shapes: a root of size 5 over children of sizes 2 and 3
C6_Witness ==
    /\ ret.op = "build"
    /\ Len(aabbs) = 5
    /\ At(nodes_, 0).subtree_size = 5
    /\ At(nodes_, At(nodes_, 0).left).subtree_size = 2
    /\ At(nodes_, At(nodes_, 0).right).subtree_size = 3

\* C7: after build of n >= 1 shapes every node is an internal node with two
\* valid children and shape_index -1, or a leaf without children and with
\* shape_index in 0..n-1; each index 0..n-1 is the shape_index of one leaf.
C7_NodeShapes ==
    (built /\ Len(aabbs) >= 1) =>
        /\ \A k \in NodeIds :
              \/ /\ At(nodes_, k).left \in NodeIds
                 /\ At(nodes_, k).right \in NodeIds
                 /\ At(nodes_, k).shape_index = -1
              \/ /\ At(nodes_, k).left = -1
                 /\ At(nodes_, k).right = -1
                 /\ At(nodes_, k).shape_index \in 0..(Len(aabbs) - 1)
        /\ \A i \in 0..(Len(aabbs) - 1) :
              Cardinality({k \in NodeIds : At(nodes_, k).shape_index = i}) = 1

\* a tree of five shapes in which the sort moved the last shape before the
\* first
C7_Witness ==
    /\ built /\ ret.op = "build"
    /\ Len(aabbs) = 5
    /\ LeafOf(4) < LeafOf(0)

\* the smallest and the largest of a set of numbers
Least(S) == CHOOSE m \in S : \A o \in S : m <= o

Greatest(S) == CHOOSE m \in S : \A o \in S : m >= o

\* the smallest box around the caller's boxes with indices in S, by definition
Hull(S) ==
    AABB(Vec2(Least({Shape(aabbs, i).min.x : i \in S}),
              Least({Shape(aabbs, i).min.y : i \in S})),
         Vec2(Greatest({Shape(aabbs, i).max.x : i \in S}),
              Greatest({Shape(aabbs, i).max.y : i \in S})))

\* box a lies within box b
Within(a, b) ==
    /\ b.min.x <= a.min.x /\ a.max.x <= b.max.x
    /\ b.min.y <= a.min.y /\ a.max.y <= b.max.y

\* C8: after build(aabbs) every node's bounds is the component-wise min/max
\* of the boxes of the leaves below it: a leaf's bounds is aabbs[shape_index],
\* a parent's bounds contains its children's, and two nodes whose bounds do
\* not overlap have no overlapping pair of leaves between them.
C8_BoundsAreHulls ==
    built =>
        /\ \A k \in NodeIds : At(nodes_, k).bounds = Hull(LeafShapes(k))
        /\ \A k \in NodeIds :
              IsLeaf(k) => At(nodes_, k).bounds = Shape(aabbs, At(nodes_, k).shape_index)
        /\ \A k \in NodeIds :
              ~IsLeaf(k) =>
                 /\ Within(At(nodes_, At(nodes_, k).left).bounds, At(nodes_, k).bounds)
                 /\ Within(At(nodes_, At(nodes_, k).right).bounds, At(nodes_, k).bounds)
        /\ \A k, l \in NodeIds :
              ~overlaps(At(nodes_, k).bounds, At(nodes_, l).bounds) =>
                 \A i \in LeafShapes(k), j \in LeafShapes(l) :
                     ~overlaps(Shape(aabbs, i), Shape(aabbs, j))

\* a tree of three shapes whose root is larger than each of the boxes and
\* whose children are apart
C8_Witness ==
    /\ built /\ ret.op = "build"
    /\ Len(aabbs) = 3
    /\ \A i \in 0..2 : At(nodes_, 0).bounds # Shape(aabbs, i)
    /\ ~overlaps(At(nodes_, At(nodes_, 0).left).bounds,
                 At(nodes_, At(nodes_, 0).right).bounds)

\* a BVH object right after construction
Fresh == State(<<>>, 0)

\* C9: whatever was built or cleared before, build(y) leaves the arena and
\* max_depth that build(y) leaves on a freshly constructed BVH.
C9_BuildReplaces ==
    ret.op = "build" => State(nodes_, max_depth_) \in build(Fresh, aabbs)

\* a tree was built over a larger and deeper one
C9_Witness ==
    /\ ret.op = "build"
    /\ nodes_ # <<>>
    /\ discarded > Len(nodes_)
    /\ max_depth_ = 1

\* the operations that only read the tree
Observers == {"find_all_pairs", "query", "query_with_steps", "nodes", "root", "max_depth"}

\* what the call recorded in r returns on a BVH in state st
Again(st, r) ==
    CASE r.op = "find_all_pairs"   -> find_all_pairs(st.nodes)
      [] r.op = "query"            -> query(st.nodes, r.box, r.index)
      [] r.op = "query_with_steps" -> query_with_steps(st.nodes, r.box, r.index)
      [] r.op = "nodes"            -> st.nodes
      [] r.op = "root"             -> root(st.nodes)
      [] r.op = "max_depth"        -> st.max_depth

\* C10: find_all_pairs, query, query_with_steps, nodes, root and max_depth
\* leave the arena and max_depth as they were, so the same call made again
\* returns the same value.
C10_ObserversReadOnly ==
    [][ret'.op \in Observers =>
          /\ nodes_' = nodes_
          /\ max_depth_' = max_depth_
          /\ ret'.value = Again(State(nodes_', max_depth_'), ret')]_vars

\* a traced query has returned several steps on a tree of three shapes
C10_Witness ==
    /\ built /\ ret.op = "query_with_steps"
    /\ Len(nodes_) = 5
    /\ Len(ret.value) >= 4

\* the partner shapes of the LeafTest steps of a trace, in trace order
RECURSIVE LeafTestPartners(_)
LeafTestPartners(steps) ==
    IF steps = <<>> THEN <<>>
    ELSE (IF Head(steps).action = "LeafTest" THEN <<Head(steps).partner_shape>> ELSE <<>>)
         \o LeafTestPartners(Tail(steps))

\* C11: on every built tree the partner shapes of the LeafTest steps of
\* query_with_steps(box, q) are, as a set, the indices query(box, q) returns.
C11_StepsFindQueryResults ==
    (built /\ ret.op = "query_with_steps") =>
        Elements(LeafTestPartners(ret.value)) = Elements(query(nodes_, ret.box, ret.index))

\* a shape of a list of three was traced with its own box: a partner was
\* tested, a node was pruned and the shape's own leaf was passed over
C11_Witness ==
    /\ built /\ ret.op = "query_with_steps"
    /\ Len(aabbs) = 3
    /\ ret.index \in 0..2
    /\ ret.box = Shape(aabbs, ret.index)
    /\ LeafTestPartners(ret.value) # <<>>
    /\ \E k \in 1..Len(ret.value) : ret.value[k].action = "Prune"

\* C12: in a trace of query_with_steps(box, q) a Prune step names a node
\* whose bounds miss box, a LeafTest step a leaf whose bounds overlap box,
\* with partner_shape its shape_index and not q, a Visit step an internal
\* node whose bounds overlap box; every step has query_shape q, and Visit
\* and Prune steps have partner_shape -1.
C12_StepsAreSound ==
    ret.op = "query_with_steps" =>
        \A k \in 1..Len(ret.value) :
            LET s == ret.value[k]
                n == At(nodes_, s.node_index)
            IN  /\ s.node_index \in NodeIds
                /\ s.query_shape = ret.index
                /\ s.action \in {"Visit", "Prune", "LeafTest"}
                /\ s.action = "Prune" =>
                      /\ ~overlaps(n.bounds, ret.box)
                      /\ s.partner_shape = -1
                /\ s.action = "LeafTest" =>
                      /\ n.shape_index >= 0
                      /\ n.left = -1 /\ n.right = -1
                      /\ overlaps(n.bounds, ret.box)
                      /\ s.partner_shape = n.shape_index
                      /\ s.partner_shape # ret.index
                /\ s.action = "Visit" =>
                      /\ n.shape_index < 0
                      /\ overlaps(n.bounds, ret.box)
                      /\ s.partner_shape = -1

\* a trace with a step of each kind, one of them the pruning of a leaf
C12_Witness ==
    /\ built /\ ret.op = "query_with_steps"
    /\ {ret.value[k].action : k \in 1..Len(ret.value)} = {"Visit", "Prune", "LeafTest"}
    /\ \E k \in 1..Len(ret.value) :
          /\ ret.value[k].action = "Prune"
          /\ IsLeaf(ret.value[k].node_index)

\* the x ranges of a and b meet in one point and their y ranges intersect
TouchAlongX(a, b) ==
    /\ a.max.x = b.min.x
    /\ a.min.y <= b.max.y
    /\ b.min.y <= a.max.y

\* the y ranges of a and b meet in one point and their x ranges intersect
TouchAlongY(a, b) ==
    /\ a.max.y = b.min.y
    /\ a.min.x <= b.max.x
    /\ b.min.x <= a.max.x

\* a and b share a single corner point
TouchAtCorner(a, b) == a.max.x = b.min.x /\ a.max.y = b.min.y

Touching(a, b) ==
    \/ TouchAlongX(a, b) \/ TouchAlongX(b, a)
    \/ TouchAlongY(a, b) \/ TouchAlongY(b, a)
    \/ TouchAtCorner(a, b) \/ TouchAtCorner(b, a)

\* C13: a.overlaps(b) equals b.overlaps(a) for all pairs of boxes, and two
\* boxes that only touch along an edge or at a corner overlap.
C13_OverlapsSymmetricClosed ==
    ret.op = "overlaps" =>
        LET a == ret.box
            b == Shape(aabbs, ret.index)
        IN  /\ ret.value[1] = overlaps(b, a)
            /\ Touching(a, b) => ret.value[1]

\* two boxes of positive area were tested that share one edge segment and
\* nothing else
C13_Witness ==
    /\ ret.op = "overlaps"
    /\ LET a == ret.box
           b == Shape(aabbs, ret.index)
       IN  /\ width(a) > 0 /\ height(a) > 0 /\ width(b) > 0 /\ height(b) > 0
           /\ a.max.x = b.min.x
           /\ a.min.y = b.min.y /\ a.max.y = b.max.y
           /\ ret.value[1]

\* the scenario's input: A, B, C at indices 0, 1, 2
ScenarioList == <<BoxA, BoxB, BoxC>>

\* C14: for A, B, C at indices 0, 1, 2, find_all_pairs() and
\* brute_force_pairs both return exactly the pair (0,1), and query(A, -1)
\* returns exactly the indices 0 and 1.
C14_ScenarioResults ==
    aabbs = ScenarioList =>
        /\ (built /\ ret.op = "find_all_pairs") => ret.value = <<(<<0, 1>>)>>
        /\ ret.op = "brute_force_pairs" => ret.value = <<(<<0, 1>>)>>
        /\ (built /\ ret.op = "query" /\ ret.box = BoxA /\ ret.index = -1) =>
              /\ Elements(ret.value) = {0, 1}
              /\ Len(ret.value) = 2

\* the tree of A, B, C was asked for its pairs
C14_Witness ==
    /\ aabbs = ScenarioList
    /\ built
    /\ ret.op = "find_all_pairs"
    /\ Len(nodes_) = 5

\* C15 as stated: the tree built from A, B, C has max_depth() equal to 1.
C15_MaxDepthOne ==
    (built /\ aabbs = ScenarioList /\ ret.op = "max_depth") => ret.value = 1

\* C15, amended: the tree built from A, B, C has max_depth() equal to 2.
C15_MaxDepthTwo ==
    (built /\ aabbs = ScenarioList /\ ret.op = "max_depth") => ret.value = 2

\* max_depth() was read from the tree of A, B, C, whose deepest leaves are
\* two links below the root
C15_Witness ==
    /\ built /\ aabbs = ScenarioList
    /\ ret.op = "max_depth"
    /\ \E k \in NodeIds : IsLeaf(k) /\ At(nodes_, k).depth = ret.value

\* C16 as stated: in the tree built from A, B, C one child of the root holds
\* both A and B and not C.
C16_CSplitFromAB ==
    (built /\ aabbs = ScenarioList) =>
        \E c \in {At(nodes_, 0).left, At(nodes_, 0).right} :
            /\ {0, 1} \subseteq LeafShapes(c)
            /\ 2 \notin LeafShapes(c)

\* C16, amended: in the tree built from A, B, C the root's median split puts
\* A alone on the left side and B and C together on the right side.
C16_ASplitFromBC ==
    (built /\ aabbs = ScenarioList) =>
        /\ LeafShapes(At(nodes_, 0).left) = {0}
        /\ LeafShapes(At(nodes_, 0).right) = {1, 2}

\* the tree of A, B, C: a leaf on the root's left, an internal node of two
\* leaves on its right
C16_Witness ==
    /\ built /\ aabbs = ScenarioList
    /\ ret = Idle
    /\ IsLeaf(At(nodes_, 0).left)
    /\ ~IsLeaf(At(nodes_, 0).right)
    /\ At(nodes_, At(nodes_, 0).right).subtree_size = 2

\* C17: query_with_steps reaches the leaves in the order query does: the
\* partner shapes of the LeafTest steps, in trace order, are the sequence
\* of indices query(box, q) returns.
C17_SameLeafOrder ==
    (built /\ ret.op = "query_with_steps") =>
        LeafTestPartners(ret.value) = query(nodes_, ret.box, ret.index)

\* the arena node whose left or right link is k (k is not the root)
ParentOf(k) ==
    CHOOSE p \in NodeIds : At(nodes_, p).left = k \/ At(nodes_, p).right = k

\* the nodes on the path from the root to k, k left out
RECURSIVE ProperAncestors(_)
ProperAncestors(k) ==
    IF k = 0 THEN {} ELSE {ParentOf(k)} \cup ProperAncestors(ParentOf(k))

\* the arena nodes a trace has a step for
SteppedNodes(steps) == {steps[i].node_index : i \in 1..Len(steps)}

\* node k is the leaf of shape q and its bounds overlap box
SelfLeaf(k, box, q) ==
    /\ IsLeaf(k)
    /\ At(nodes_, k).shape_index = q
    /\ overlaps(At(nodes_, k).bounds, box)

\* C18: in a trace of query_with_steps(box, q) a node has a step exactly
\* when the bounds of all its proper ancestors overlap box and it is not
\* the leaf of shape q with bounds overlapping box; no node has two steps.
C18_SteppedNodes ==
    ret.op = "query_with_steps" =>
        /\ \A k \in NodeIds :
              k \in SteppedNodes(ret.value) <=>
                 /\ \A p \in ProperAncestors(k) : overlaps(At(nodes_, p).bounds, ret.box)
                 /\ ~SelfLeaf(k, ret.box, ret.index)
        /\ \A i, j \in 1..Len(ret.value) :
              i # j => ret.value[i].node_index # ret.value[j].node_index

\* a trace in which an internal node was pruned, so that its two leaves
\* have no step, and the query shape's own leaf was reached and passed over
C18_Witness ==
    /\ built /\ ret.op = "query_with_steps"
    /\ \E i \in 1..Len(ret.value) :
          /\ ret.value[i].action = "Prune"
          /\ ~IsLeaf(ret.value[i].node_index)
          /\ At(nodes_, ret.value[i].node_index).left \notin SteppedNodes(ret.value)
    /\ \E k \in NodeIds :
          /\ SelfLeaf(k, ret.box, ret.index)
          /\ ParentOf(k) \in SteppedNodes(ret.value)
          /\ k \notin SteppedNodes(ret.value)

\* arena node k and every node below it
RECURSIVE Subtree(_)
Subtree(k) ==
    IF IsLeaf(k) THEN {k}
    ELSE {k} \cup Subtree(At(nodes_, k).left) \cup Subtree(At(nodes_, k).right)

\* C19: the trace of query_with_steps is in depth-first pre-order, left
\* child first: the step of a node other than the root comes after the
\* Visit step of its parent, and every step of a node in an internal
\* node's left subtree comes before every step of a node in its right
\* subtree.
C19_PreOrderLeftFirst ==
    ret.op = "query_with_steps" =>
        /\ \A j \in 1..Len(ret.value) :
              ret.value[j].node_index # 0 =>
                 \E i \in 1..(j - 1) :
                    /\ ret.value[i].node_index = ParentOf(ret.value[j].node_index)
                    /\ ret.value[i].action = "Visit"
        /\ \A n \in NodeIds :
              ~IsLeaf(n) =>
                 \A i, j \in 1..Len(ret.value) :
                    (/\ ret.value[i].node_index \in Subtree(At(nodes_, n).left)
                     /\ ret.value[j].node_index \in Subtree(At(nodes_, n).right)) => i < j

\* a trace of the whole tree of three shapes: steps on both sides of the
\* root and on both sides of the internal node below it
C19_Witness ==
    /\ built /\ ret.op = "query_with_steps"
    /\ Len(nodes_) = 5
    /\ SteppedNodes(ret.value) = NodeIds
    /\ ret.value[1].node_index = 0

\* C20: after any build every internal node with subtree_size k has a left
\* child with subtree_size floor(k/2) and a right child with subtree_size
\* k - floor(k/2): for odd k the left side is the smaller one, and the
\* sides never differ by more than one leaf.
C20_MedianSplit ==
    built =>
        \A n \in NodeIds :
            ~IsLeaf(n) =>
               LET k  == At(nodes_, n).subtree_size
                   ls == At(nodes_, At(nodes_, n).left).subtree_size
                   rs == At(nodes_, At(nodes_, n).right).subtree_size
               IN  /\ ls = k \div 2
                   /\ rs = k - (k \div 2)
                   /\ ls <= rs
                   /\ rs - ls <= 1

\* a tree of five shapes: two under the root's left child, three under its
\* right child, and of those three one on the left and two on the right
C20_Witness ==
    /\ built /\ Len(aabbs) = 5
    /\ At(nodes_, 0).subtree_size = 5
    /\ At(nodes_, At(nodes_, 0).left).subtree_size = 2
    /\ LET r == At(nodes_, 0).right
       IN  /\ At(nodes_, r).subtree_size = 3
           /\ At(nodes_, At(nodes_, r).left).subtree_size = 1
           /\ At(nodes_, At(nodes_, r).right).subtree_size = 2

\* the centroid coordinate of shape i along the x axis or the y axis
CentroidAlong(split_x, i) ==
    IF split_x THEN center(Shape(aabbs, i)).x ELSE center(Shape(aabbs, i)).y

\* C21: after any build, for every internal node, along the x axis when
\* the node's bounds are at least as wide as high and along the y axis
\* otherwise, the centroid of every leaf box of the left subtree is <= the
\* centroid of every leaf box of the right subtree.
C21_SplitAxisOrder ==
    built =>
        \A n \in NodeIds :
            ~IsLeaf(n) =>
               LET split_x == width(At(nodes_, n).bounds) >= height(At(nodes_, n).bounds)
               IN  \A i \in LeafShapes(At(nodes_, n).left) :
                      \A j \in LeafShapes(At(nodes_, n).right) :
                         CentroidAlong(split_x, i) <= CentroidAlong(split_x, j)

\* a tree with a square node split along x whose sides are out of order
\* along y, and a node higher than wide split along y
C21_Witness ==
    /\ built
    /\ \E n \in NodeIds :
          /\ ~IsLeaf(n)
          /\ width(At(nodes_, n).bounds) = height(At(nodes_, n).bounds)
          /\ \E i \in LeafShapes(At(nodes_, n).left), j \in LeafShapes(At(nodes_, n).right) :
                CentroidAlong(FALSE, i) > CentroidAlong(FALSE, j)
    /\ \E n \in NodeIds :
          /\ ~IsLeaf(n)
          /\ width(At(nodes_, n).bounds) < height(At(nodes_, n).bounds)
          /\ \E i \in LeafShapes(At(nodes_, n).left), j \in LeafShapes(At(nodes_, n).right) :
                CentroidAlong(FALSE, i) < CentroidAlong(FALSE, j)

\* the depth fields of the leaves of the arena
LeafDepths == {At(nodes_, k).depth : k \in {l \in NodeIds : IsLeaf(l)}}

\* C22: after any non-empty build the root has depth 0, every child has
\* its parent's depth plus 1, and max_depth() is the greatest depth of a
\* leaf.
C22_Depths ==
    (built /\ nodes_ # <<>>) =>
        /\ At(nodes_, 0).depth = 0
        /\ \A n \in NodeIds :
              ~IsLeaf(n) =>
                 /\ At(nodes_, At(nodes_, n).left).depth = At(nodes_, n).depth + 1
                 /\ At(nodes_, At(nodes_, n).right).depth = At(nodes_, n).depth + 1
        /\ max_depth_ = Greatest(LeafDepths)

\* a tree of five shapes, with leaves at depth 2 and at depth 3
C22_Witness ==
    /\ built /\ Len(aabbs) = 5
    /\ LeafDepths = {2, 3}
    /\ max_depth_ = 3

\* how many calls of a trace have both arguments equal to node k
SameNodeCalls(calls, k) == Cardinality({c \in 1..Len(calls) : calls[c] = <<k, k>>})

\* C23 as stated: in a tree of two or more shapes find_all_pairs() makes no
\* call of self_query with both arguments the same leaf.
C23_NoSameLeafCall ==
    (built /\ ret.op = "find_all_pairs_calls" /\ Len(aabbs) >= 2) =>
        \A c \in 1..Len(ret.value) :
            ret.value[c][1] = ret.value[c][2] => ~IsLeaf(ret.value[c][1])

\* C23, amended: find_all_pairs() calls self_query with both arguments the
\* same leaf exactly once for every leaf of the tree, whatever the number
\* of shapes.
C23_EachLeafCalledOnce ==
    (built /\ ret.op = "find_all_pairs_calls") =>
        \A k \in NodeIds : IsLeaf(k) => SameNodeCalls(ret.value, k) = 1

\* the calls made on a tree of three shapes, each of its three leaves
\* among them paired with itself
C23_Witness ==
    /\ built /\ ret.op = "find_all_pairs_calls"
    /\ Len(aabbs) = 3
    /\ Cardinality({k \in NodeIds : IsLeaf(k) /\ SameNodeCalls(ret.value, k) = 1}) = 3

\* C24: with the both-internal rule of self_query replaced by any choice
\* of which of the two internal nodes to descend, find_all_pairs() yields
\* the set of pairs the size rule yields, without duplicates, on every
\* built tree.
C24_DescentRuleFree ==
    (built /\ ret.op = "find_all_pairs_any") =>
        /\ Elements(ret.value) = Elements(find_all_pairs(nodes_))
        /\ NoRepeats(ret.value)

\* a tree of five shapes whose root has two internal children of sizes 2
\* and 3 with overlapping bounds, searched in an order the size rule does
\* not produce
C24_Witness ==
    /\ built /\ ret.op = "find_all_pairs_any"
    /\ Len(aabbs) = 5
    /\ ~IsLeaf(At(nodes_, 0).left) /\ ~IsLeaf(At(nodes_, 0).right)
    /\ overlaps(At(nodes_, At(nodes_, 0).left).bounds, At(nodes_, At(nodes_, 0).right).bounds)
    /\ ret.value # find_all_pairs(nodes_)
    /\ ret.value # <<>>

\* the links into arena node k: the parents and the side they hold k on
LinksTo(k) ==
    {l \in NodeIds \X {"left", "right"} :
        IF l[2] = "left" THEN At(nodes_, l[1]).left = k ELSE At(nodes_, l[1]).right = k}

\* the arena nodes found by following child links from arena node k, the
\* links read as they are stored
RECURSIVE Reachable(_)
Reachable(k) ==
    IF k < 0 THEN {}
    ELSE {k} \cup Reachable(At(nodes_, k).left) \cup Reachable(At(nodes_, k).right)

\* C25: after build of n >= 1 shapes the arena has exactly 2n-1 nodes, n
\* leaves and n-1 internal nodes, every node is reachable from root 0 by
\* exactly one path, and the arena does not exceed the 2n reserved slots.
C25_ArenaSize ==
    (built /\ aabbs # <<>>) =>
        LET n == Len(aabbs)
        IN  /\ Len(nodes_) = 2 * n - 1
            /\ Cardinality({k \in NodeIds : IsLeaf(k)}) = n
            /\ Cardinality({k \in NodeIds : ~IsLeaf(k)}) = n - 1
            /\ Reachable(0) = NodeIds
            /\ LinksTo(0) = {}
            /\ \A k \in NodeIds \ {0} : Cardinality(LinksTo(k)) = 1
            /\ Len(nodes_) <= 2 * n

\* a tree of five shapes in an arena of nine nodes
C25_Witness ==
    /\ built /\ Len(aabbs) = 5
    /\ Len(nodes_) = 9
    /\ Reachable(0) = 0..8

\* C26: the arena is laid out in pre-order: the root is index 0, every
\* internal node at index p has left = p + 1 and right = p + 2 *
\* nodes[left].subtree_size, so every child index is greater than its
\* parent's and every prefix 0..k of the arena is a connected tree
\* containing the root.
C26_PreOrderArena ==
    (built /\ aabbs # <<>>) =>
        /\ LinksTo(0) = {}
        /\ \A p \in NodeIds :
              ~IsLeaf(p) =>
                 /\ At(nodes_, p).left = p + 1
                 /\ At(nodes_, p).right = p + 2 * At(nodes_, p + 1).subtree_size
                 /\ At(nodes_, p).left > p
                 /\ At(nodes_, p).right > p
        /\ \A k \in NodeIds \ {0} :
              \E l \in LinksTo(k) : l[1] < k

\* an arena of nine nodes whose root has its right child at index 4, after
\* the three nodes of a left subtree of two leaves
C26_Witness ==
    /\ built /\ Len(aabbs) = 5
    /\ Len(nodes_) = 9
    /\ At(nodes_, 0).left = 1
    /\ At(nodes_, 1).subtree_size = 2
    /\ At(nodes_, 0).right = 4
    /\ At(nodes_, 4).right = 6

\* ceil(log2(n)) for n >= 1: the least d with 2^d >= n
CeilLog2(n) == Least({d \in 0..n : 2 ^ d >= n})

\* C27: after build of n >= 1 shapes the depths of any two leaves differ
\* by at most 1 and max_depth() equals ceil(log2(n)).
C27_HeightBalanced ==
    (built /\ aabbs # <<>>) =>
        /\ \A d, e \in LeafDepths : d - e <= 1
        /\ max_depth_ = CeilLog2(Len(aabbs))

\* a tree of four shapes with every leaf at depth 2
C27_Witness ==
    /\ built /\ Len(aabbs) = 4
    /\ LeafDepths = {2}
    /\ max_depth_ = 2

C29_StepModeOnlyPaused ==
    /\ ui.step_mode => ui.paused
    /\ ~ui.paused => (~ui.step_mode /\ ui.step_index = -1)

\* the simulation is paused with a shape selected and N has stepped to the
\* second step of its trace
C29_Witness ==
    /\ ui.paused /\ ui.step_mode
    /\ ui.selected_shape >= 0
    /\ ui.step_index = 1
    /\ Len(query_steps) >= 2

\* C30: after any sequence of key presses build_anim_active is true only
\* while paused is true.
C30_BuildAnimOnlyPaused == ui.build_anim_active => ui.paused

====
